---- MODULE Spec2Model ----
(***************************************************************************)
(* A model of pyvibepatcher's transactional apply controller               *)
(* (apply_modification_set in code_mod_defs.py), of the GitRollbackManager *)
(* it drives, and of the part of git and of the filesystem they act on     *)
(* (specification Spec); and of declare, the structural edit of one source *)
(* file with libcst (specification SpecEdit).                              *)
(*                                                                         *)
(* A file's content is a string, "absent" when the path does not exist.   *)
(* A commit hash is the commit's position in `commits`; 0 is "no commit"   *)
(* (None in the source).  A text (a commit message, a description) is a   *)
(* sequence of tokens, "\n" being the newline; the empty string is <<>>.   *)
(***************************************************************************)
EXTENDS Integers, Sequences, FiniteSets, TLC

\* ------------------------------------------------------------------ bounds
MaxOps == 3
MaxBatches == 2
MaxStmts == 2
MaxEdits == 2

\* ---------------------------------------------------------------- universe
Paths == {"p1", "p2"}
Absent == "absent"
NewContent == "new"
BadCode == "unparsable"
Texts == {<<>>, <<"a">>}

EmptyText == <<>>
Newline == <<"\n">>
BeforeMessage == <<"Before LLM modifications">>
DefaultMessage == <<"After LLM modifications">>
NoChangesPrefix == <<"Rollback point (no changes): ">>

FuncNames == {"declare", "move_file", "remove_file", "create_file",
              "modification_description"}

VARIABLES
  \* git and the filesystem
  isRepo,               \* git rev-parse --git-dir succeeds
  identity,             \* user.name and user.email are configured
  commits,              \* the commits made so far: [tree, message, parent]
  head,                 \* HEAD, 0 in a repository without commits
  index,                \* the staging area: path -> content
  wt,                   \* the working tree: path -> content
  rollback_file,        \* .modification_rollback.json
  clock,                \* datetime.now()
  \* the GitRollbackManager of the running (or last) batch
  tracked_files,
  accumulated_message,
  rollback_data,
  \* the function attributes func._rollback_manager
  attrs,
  \* apply_modification_set
  pc,
  modifications,
  auto_rollback_on_failure,
  done,                 \* how many entries of other_modifications have returned
  exc,                  \* the exception caught by the handler ("none" if none)
  raised,               \* the exception the caller sees ("none" if none)
  \* history
  batch,                \* batches started
  invoked,              \* positions (in modifications) of the operations invoked
  failedAt,             \* position of the operation that raised, 0 if none
  pre,                  \* HEAD, index and working tree when the call began
  ckpt,                 \* the checkpoint: its commit, and the commits, index and
                        \* working tree there were when it was taken
  resets,               \* the commits hard_rollback reset to, in call order
  stored,               \* rollback_data.commit_hash of each returned manager
  entries               \* list entries handed in so far, over all batches

\* declare applied to the content of one source file
VARIABLES
  src,                  \* the content of the file
  original,             \* its content before the first call
  before,               \* its content before the last call
  call,                 \* the last call: [target_path, is_none, new_code]
  previous,             \* the call before the last one
  outcome,              \* what the last call raised and the flags it computed
  edits                 \* calls made

\* two calls of apply_modification_set that overlap in time
VARIABLES
  attr_manager,         \* the batch whose manager the _rollback_manager
                        \* attributes of the five functions hold, 0 if none
  bpc,                  \* where each of the two calls is
  todo,                 \* the paths the operations of each call still have to touch
  managers,             \* tracked_files of the manager each call made
  ran,                  \* the paths the operations of each call have touched
  committed_by          \* the paths each call staged for its final commit

\* a function of the parser or of the path syntax applied to a text
VARIABLES
  fn,                   \* the function applied last ("none" before the first)
  given,                \* its argument
  result                \* what it returned

gitVars == <<isRepo, identity, commits, head, index, wt, rollback_file, clock>>
mgrVars == <<tracked_files, accumulated_message, rollback_data>>
ctlVars == <<attrs, pc, modifications, auto_rollback_on_failure, done, exc, raised>>
histVars == <<batch, invoked, failedAt, pre, ckpt, resets, stored, entries>>
editVars == <<src, original, before, call, previous, outcome, edits>>
overlapVars == <<attr_manager, bpc, todo, managers, ran, committed_by>>
pureVars == <<fn, given, result>>
vars == <<gitVars, mgrVars, ctlVars, histVars, editVars, overlapVars, pureVars>>

\* --------------------------------------------------------------------- git
EmptyTree == [p \in Paths |-> Absent]
InitialTree == [p \in Paths |-> IF p = "p1" THEN "committed" ELSE Absent]

Tree(c) == IF c = 0 THEN EmptyTree ELSE commits[c].tree

\* git add <path> for each path of ps: the index takes the working-tree state
\* (a path that is gone is staged as removed).
GitAdd(idx, ps) == [p \in Paths |-> IF p \in ps THEN wt[p] ELSE idx[p]]

\* A faulty variant: git reset --soft: the working tree is left as it is.
ResetKeepTree(c) == wt

\* A faulty variant: a reset that keeps the edits not yet staged.
ResetKeepingUnstaged(c) ==
  [p \in Paths |-> IF wt[p] # index[p] THEN wt[p] ELSE Tree(c)[p]]

\* git reset --hard c: HEAD and the index become c; every path known to the
\* old index or to c takes c's content; untracked paths are left alone.
ResetHardTree(c) ==
  [p \in Paths |-> IF index[p] # Absent \/ Tree(c)[p] # Absent
                   THEN Tree(c)[p] ELSE wt[p]]

\* git rev-parse HEAD; None (0) when it fails.
get_current_commit == head

get_current_branch == "main"

\* git diff --cached --name-only: a failing call reads as "nothing staged".
has_staged_changes(idx) == {idx # Tree(head), FALSE}

NoData == [commit_hash |-> 0, branch |-> "", timestamp |-> 0,
           message |-> EmptyText, was_clean |-> FALSE]

\* A faulty variant: git add of every path, tracked or not.
PathsToStageAll(tracked) == Paths

\* The paths create_rollback_point hands to git add.
PathsToStage(tracked) == tracked

\* The loop over tracked_files (in set order): git add may fail for any path.
\* A failure for an existing path raises, leaving the paths added before it
\* staged; a failure for a removed path is only logged.
StagingOutcomes(tracked) ==
  LET T == PathsToStage(tracked)
      gone == {p \in T : wt[p] = Absent}
  IN  { [raise |-> TRUE, index |-> GitAdd(index, S)] :
          S \in UNION { SUBSET (T \ {f}) : f \in T \ gone } }
      \cup
      { [raise |-> FALSE, index |-> GitAdd(index, T \ F)] : F \in SUBSET gone }

\* What a call of create_rollback_point leaves behind: the exception it raised
\* ("none" when it returned), git's state, and the manager's rollback_data.
Outcome(e, idx, cs, h, data, file) ==
  [exc |-> e, index |-> idx, commits |-> cs, head |-> h,
   rollback_data |-> data, rollback_file |-> file]

\* self.rollback_data = rollback_info; self._save_rollback_data(): a failing
\* write is only logged.
SaveOutcomes(idx, cs, h, info) ==
  { Outcome("none", idx, cs, h, info, info),
    Outcome("none", idx, cs, h, info, rollback_file) }

CommitOutcomesStaleHash(self, idx, message) ==
  LET cs == Append(commits, [tree |-> idx, message |-> message, parent |-> head])
      new_commit == Len(cs)
      info == [commit_hash |-> head, branch |-> get_current_branch,
               timestamp |-> clock, message |-> message, was_clean |-> FALSE]
  IN  { Outcome("Failed to create git commit", idx, commits, head,
                self.rollback_data, rollback_file) }
      \cup SaveOutcomes(idx, cs, new_commit, info)

\* git commit [--allow-empty] -m message: it may fail, leaving the staged paths
\* staged; otherwise the new commit is HEAD and becomes the rollback point.
CommitOutcomes(self, idx, message) ==
  LET cs == Append(commits, [tree |-> idx, message |-> message, parent |-> head])
      new_commit == Len(cs)
      info == [commit_hash |-> new_commit, branch |-> get_current_branch,
               timestamp |-> clock, message |-> message, was_clean |-> FALSE]
  IN  { Outcome("Failed to create git commit", idx, commits, head,
                self.rollback_data, rollback_file) }
      \cup SaveOutcomes(idx, cs, new_commit, info)

\* A faulty variant: the identity check is left out.
CheckpointRefusalNoIdentity ==
  IF ~isRepo THEN "Not in a git repository"
  ELSE IF get_current_commit = 0 THEN "Failed to get current git commit hash"
  ELSE "none"

\* The identity and repository checks of create_rollback_point, in order.
CheckpointRefusal ==
  IF ~isRepo THEN "Not in a git repository"
  ELSE IF get_current_commit = 0 THEN "Failed to get current git commit hash"
  ELSE IF ~identity THEN "Git user.name and user.email must be configured"
  ELSE "none"

\* self.create_rollback_point(message, force_commit), self being the manager
\* [tracked_files, rollback_data]: the set of its possible outcomes.
create_rollback_point(self, message, force_commit) ==
  IF CheckpointRefusal # "none"
  THEN { Outcome(CheckpointRefusal, index, commits, head, self.rollback_data,
                 rollback_file) }
  ELSE UNION {
    IF s.raise
    THEN { Outcome("Failed to stage file", s.index, commits, head,
                   self.rollback_data, rollback_file) }
    ELSE UNION {
      IF ~has_staged /\ ~force_commit
      THEN SaveOutcomes(s.index, commits, head,
             [commit_hash |-> get_current_commit, branch |-> get_current_branch,
              timestamp |-> clock, message |-> NoChangesPrefix \o message,
              was_clean |-> TRUE])
      ELSE CommitOutcomes(self, s.index, message)
      : has_staged \in has_staged_changes(s.index) }
    : s \in StagingOutcomes(self.tracked_files) }

\* A faulty variant: the reset goes to the parent of the stored commit.
hard_rollback_parent(data) ==
  LET commit_hash == data.commit_hash
      target == IF commit_hash = 0 THEN 0 ELSE commits[commit_hash].parent
      unchanged == [ok |-> FALSE, head |-> head, index |-> index, wt |-> wt]
  IN  IF commit_hash = 0
      THEN { unchanged }
      ELSE { unchanged,
             [ok |-> TRUE, head |-> target, index |-> Tree(target),
              wt |-> ResetHardTree(target)] }

hard_rollback_reports_success(data) ==
  LET commit_hash == data.commit_hash
      unchanged == [ok |-> FALSE, head |-> head, index |-> index, wt |-> wt]
  IN  IF commit_hash = 0
      THEN { unchanged }
      ELSE { [unchanged EXCEPT !.ok = TRUE],
             [ok |-> TRUE, head |-> commit_hash, index |-> Tree(commit_hash),
              wt |-> ResetHardTree(commit_hash)] }

\* hard_rollback(commit_hash=None) of a manager whose rollback_data is `data`:
\* [ok, head, index, wt].  git reset --hard may fail; the method then returns
\* False and nothing has moved.
hard_rollback(data) ==
  LET commit_hash == data.commit_hash
      unchanged == [ok |-> FALSE, head |-> head, index |-> index, wt |-> wt]
  IN  IF commit_hash = 0
      THEN { unchanged }
      ELSE { unchanged,
             [ok |-> TRUE, head |-> commit_hash, index |-> Tree(commit_hash),
              wt |-> ResetHardTree(commit_hash)] }

\* ---------------------------------------------------- message accumulation
\* A faulty variant: the texts are joined last to first.
RECURSIVE JoinReversed(_)
JoinReversed(texts) ==
  IF texts = <<>> THEN EmptyText
  ELSE IF Len(texts) = 1 THEN texts[1]
  ELSE JoinReversed(Tail(texts)) \o Newline \o texts[1]

\* "\n".join(texts)
RECURSIVE Join(_)
Join(texts) ==
  IF texts = <<>> THEN EmptyText
  ELSE IF Len(texts) = 1 THEN texts[1]
  ELSE texts[1] \o Newline \o Join(Tail(texts))

\* GitRollbackManager.accumulate_message
accumulate_message(acc, message) ==
  IF acc # EmptyText THEN acc \o Newline \o message ELSE message

\* The message of the final commit: get_accumulated_message(), or the default
\* when that is empty.
CommitMessage(acc) == IF acc = EmptyText THEN DefaultMessage ELSE acc

\* -------------------------------------------------------------- operations
Op(f, path, arg, text) == [f |-> f, path |-> path, arg |-> arg, text |-> text]

\* The entries a modification list is drawn from: p1 is the file the
\* repository holds, p2 a path it does not hold.
Ops ==
  { Op("create_file", "p2", NewContent, EmptyText),
    Op("move_file", "p1", "p2", EmptyText),
    Op("remove_file", "p1", "", EmptyText) }
  \cup { Op("declare", "p1", c, EmptyText) : c \in {NewContent, BadCode} }
  \cup { Op("modification_description", "", "", t) : t \in Texts }

ModLists(n) == UNION { [1..k -> Ops] : k \in 0..n }

IsDescription(op) == op.f = "modification_description"

\* rollback_manager.track_file, reached only through func._rollback_manager
Track(f, tracked, ps) == IF f \in attrs THEN tracked \cup ps ELSE tracked

Result(ok, e, w, tracked) == [ok |-> ok, exc |-> e, wt |-> w, tracked_files |-> tracked]

\* create_file(file_path, file_content): writes, then tracks the path.
create_file(op, tracked) ==
  Result(TRUE, "none", [wt EXCEPT ![op.path] = op.arg],
         Track("create_file", tracked, {op.path}))

\* move_file(src, dst): tracks both paths, then moves; shutil.move raises
\* when src does not exist.
move_file(op, tracked) ==
  LET t == Track("move_file", tracked, {op.path, op.arg})
  IN  IF wt[op.path] = Absent
      THEN Result(FALSE, "FileNotFoundError", wt, t)
      ELSE Result(TRUE, "none",
                  [wt EXCEPT ![op.arg] = wt[op.path], ![op.path] = Absent], t)

\* remove_file(path): tracks the path, then removes it if it is there.
remove_file(op, tracked) ==
  Result(TRUE, "none", [wt EXCEPT ![op.path] = Absent],
         Track("remove_file", tracked, {op.path}))

\* The content declare writes back: the file with the declaration applied.
Declared(content, new_code) == new_code

\* declare(file_path, target_path, new_code): reads the file (open raises
\* when it is missing), parses the fragment (raises when it does not parse),
\* writes the edited content.  It records nothing in the manager.
declare(op, tracked) ==
  IF wt[op.path] = Absent THEN Result(FALSE, "FileNotFoundError", wt, tracked)
  ELSE IF op.arg = BadCode THEN Result(FALSE, "ParserSyntaxError", wt, tracked)
  ELSE Result(TRUE, "none", [wt EXCEPT ![op.path] = Declared(wt[op.path], op.arg)],
              tracked)

\* func(*args, **kwargs)
Invoke(op, tracked) ==
  CASE op.f = "create_file" -> create_file(op, tracked)
    [] op.f = "move_file"   -> move_file(op, tracked)
    [] op.f = "remove_file" -> remove_file(op, tracked)
    [] op.f = "declare"     -> declare(op, tracked)

\* The paths an operation creates, rewrites, moves or removes.
Touches(op) ==
  CASE op.f = "move_file" -> {op.path, op.arg}
    [] IsDescription(op)  -> {}
    [] OTHER              -> {op.path}

\* ------------------------------------------------------------ syntax tree
\* A statement of a parsed module (a libcst node): kind is "def"
\* (FunctionDef), "class" (ClassDef), "if" (a compound statement that is no
\* declaration: the guard block), or a SimpleStatementLine holding one small
\* statement: "assign" (Assign, names being its targets), "expr", "pass".
\* tag stands for the rest of the statement's text.
Stmt(kind, names, body, tag) == [kind |-> kind, names |-> names, body |-> body, tag |-> tag]

FunctionDef(name, body) == Stmt("def", <<name>>, body, "")
ClassDef(name, body) == Stmt("class", <<name>>, body, "")
Assign(targets, tag) == Stmt("assign", targets, <<>>, tag)
Expr(tag) == Stmt("expr", <<>>, <<>>, tag)
PassStmt == Stmt("pass", <<>>, <<>>, "")
MainGuard == Stmt("if", <<>>, <<Expr("main")>>, "__main__")

\* A text is what its parse gives: it does not parse, or it is a module body.
Unparsable == [parses |-> FALSE, body |-> <<>>]
Parsed(body) == [parses |-> TRUE, body |-> body]

\* Module.code followed by the next parse: libcst writes `pass` into an
\* indented block that was left without statements.
RECURSIVE CodeOfBody(_)
CodeOfBody(body) ==
  [i \in 1..Len(body) |->
     IF body[i].kind \in {"def", "class", "if"}
     THEN [body[i] EXCEPT !.body = IF Len(body[i].body) = 0 THEN <<PassStmt>>
                                    ELSE CodeOfBody(body[i].body)]
     ELSE body[i]]

Code(body) == Parsed(CodeOfBody(body))

\* str.split('.') on a text held as the sequence of its characters: the
\* pieces between the dots, empty pieces included.
RECURSIVE split(_)
splitDroppingEmpty(chars) ==
  LET dots == {i \in 1..Len(chars) : chars[i] = "."}
      first == CHOOSE i \in dots : \A j \in dots : i <= j
  IN  IF dots = {} THEN <<chars>>
      ELSE (IF first = 1 THEN <<>> ELSE <<SubSeq(chars, 1, first - 1)>>)
           \o split(SubSeq(chars, first + 1, Len(chars)))

split(chars) ==
  LET dots == {i \in 1..Len(chars) : chars[i] = "."}
      first == CHOOSE i \in dots : \A j \in dots : i <= j
  IN  IF dots = {} THEN <<chars>>
      ELSE <<SubSeq(chars, 1, first - 1)>> \o split(SubSeq(chars, first + 1, Len(chars)))

\* parse_lexical_chain: a dotted path, held as the sequence of its components
parse_lexical_chain(target_path) ==
  [target_name |-> target_path[Len(target_path)],
   chain |-> SubSeq(target_path, 1, Len(target_path) - 1)]

\* _is_assignment_to_name
is_assignment_to_name(stmt, name) ==
  stmt.kind = "assign" /\ \E i \in 1..Len(stmt.names) : stmt.names[i] = name

\* The statements leave_ClassDef and leave_Module of _DeletionTransformer
\* drop from a body: functions of that name and assignments to it.
DeletionDrops(stmt, target_name) ==
  \/ stmt.kind = "def" /\ stmt.names[1] = target_name
  \/ is_assignment_to_name(stmt, target_name)

\* _DeletionTransformer below one statement: class_stack holds the names of
\* the enclosing classes only (visit_ClassDef); the children are left first,
\* then a class whose stack equals the chain has its body filtered.
RECURSIVE DeletionVisit(_, _, _, _)
DeletionVisit(stmt, class_stack, target_name, chain) ==
  IF Len(stmt.body) = 0 THEN stmt
  ELSE LET stack == IF stmt.kind = "class" THEN Append(class_stack, stmt.names[1])
                    ELSE class_stack
           visited == [i \in 1..Len(stmt.body) |->
                         DeletionVisit(stmt.body[i], stack, target_name, chain)]
       IN  [stmt EXCEPT !.body =
              IF stmt.kind = "class" /\ stack = chain
              THEN SelectSeq(visited, LAMBDA s : ~DeletionDrops(s, target_name))
              ELSE visited]

\* _DeletionTransformer on a module: leave_Module filters the module body
\* when the chain is empty.
DeletionTransformer(body, target_name, chain) ==
  LET visited == [i \in 1..Len(body) |-> DeletionVisit(body[i], <<>>, target_name, chain)]
  IN  IF Len(chain) = 0
      THEN SelectSeq(visited, LAMBDA s : ~DeletionDrops(s, target_name))
      ELSE visited

\* remove_block(source, target_name, lexical_chain) -> (new_source, removed);
\* removed is set exactly when a statement was dropped.
remove_block(source, target_name, lexical_chain) ==
  IF ~source.parses THEN [code |-> source, removed |-> FALSE]
  ELSE LET new_body == DeletionTransformer(source.body, target_name, lexical_chain)
       IN  [code |-> Code(new_body), removed |-> new_body # source.body]

\* ReplaceDeclaration._matches_lexical_chain
matches_lexical_chain(class_stack, chain) ==
  IF Len(chain) = 0 THEN Len(class_stack) = 0 ELSE class_stack = chain

\* ReplaceDeclaration below one statement, t being the transformer
\* [target_name, chain, kind, rep]: [out |-> the statement it leaves,
\* replaced |-> whether self.replaced was set].  leave_FunctionDef returns
\* the replacement without setting the flag; leave_SimpleStatementLine sets it.
RECURSIVE ReplaceVisit(_, _, _)
ReplaceVisit(stmt, class_stack, t) ==
  LET stack == IF stmt.kind = "class" THEN Append(class_stack, stmt.names[1])
               ELSE class_stack
      visited == [i \in 1..Len(stmt.body) |-> ReplaceVisit(stmt.body[i], stack, t)]
      updated == [stmt EXCEPT !.body = [i \in 1..Len(stmt.body) |-> visited[i].out]]
      below == \E i \in 1..Len(stmt.body) : visited[i].replaced
  IN  IF /\ stmt.kind = "def" /\ t.kind = "def"
         /\ stmt.names[1] = t.target_name
         /\ matches_lexical_chain(class_stack, t.chain)
         /\ t.rep.kind = "def"
      THEN [out |-> t.rep, replaced |-> below]
      ELSE IF /\ stmt.kind = "assign" /\ t.kind = "assign"
              /\ \E i \in 1..Len(stmt.names) : stmt.names[i] = t.target_name
              /\ matches_lexical_chain(class_stack, t.chain)
              /\ t.rep.kind = "assign"
      THEN [out |-> t.rep, replaced |-> TRUE]
      ELSE [out |-> updated, replaced |-> below]

\* module.visit(ReplaceDeclaration(...)): [body, replaced]
ReplaceDeclaration(body, t) ==
  LET visited == [i \in 1..Len(body) |-> ReplaceVisit(body[i], <<>>, t)]
  IN  [body |-> [i \in 1..Len(body) |-> visited[i].out],
       replaced |-> \E i \in 1..Len(body) : visited[i].replaced]

\* _target_exists below one statement: the finder's stack holds the enclosing
\* classes; a function of that name, or a one-statement assignment to it,
\* counts when the stack equals the chain.
RECURSIVE FinderVisit(_, _, _, _)
FinderVisit(stmt, stack, target_name, chain) ==
  \/ /\ \/ stmt.kind = "def" /\ stmt.names[1] = target_name
        \/ is_assignment_to_name(stmt, target_name)
     /\ stack = chain
  \/ \E i \in 1..Len(stmt.body) :
       FinderVisit(stmt.body[i],
                   IF stmt.kind = "class" THEN Append(stack, stmt.names[1]) ELSE stack,
                   target_name, chain)

\* _target_exists(source, target_name, chain)
target_exists(source, target_name, chain) ==
  /\ source.parses
  /\ \E i \in 1..Len(source.body) : FinderVisit(source.body[i], <<>>, target_name, chain)

RECURSIVE InsertVisit(_, _, _, _)
InsertVisitInClasses(stmt, context_stack, node, chain) ==
  IF Len(stmt.body) = 0 THEN stmt
  ELSE LET container == stmt.kind = "class"
           stack == IF container THEN Append(context_stack, stmt.names[1])
                    ELSE context_stack
           visited == [i \in 1..Len(stmt.body) |->
                         InsertVisit(stmt.body[i], stack, node, chain)]
       IN  [stmt EXCEPT !.body = IF container /\ stack = chain
                                 THEN Append(visited, node) ELSE visited]

\* InsertIntoContainer below one statement: context_stack holds the enclosing
\* classes and functions; on leaving a class or function whose stack equals
\* the chain the node is appended to its body.
InsertVisit(stmt, context_stack, node, chain) ==
  IF Len(stmt.body) = 0 THEN stmt
  ELSE LET container == stmt.kind \in {"def", "class"}
           stack == IF container THEN Append(context_stack, stmt.names[1])
                    ELSE context_stack
           visited == [i \in 1..Len(stmt.body) |->
                         InsertVisit(stmt.body[i], stack, node, chain)]
       IN  [stmt EXCEPT !.body = IF container /\ stack = chain
                                 THEN Append(visited, node) ELSE visited]

\* module.visit(InsertIntoContainer(node, lexical_chain))
InsertIntoContainer(body, node, chain) ==
  [i \in 1..Len(body) |-> InsertVisit(body[i], <<>>, node, chain)]

\* The top-level insertion of insert_block: the node goes to the end of the
\* module body.
TopLevelInsert(body, node) == body \o <<node>>

EditResult(e, code) == [exc |-> e, code |-> code]

insert_block_at_top(content, new_code, lexical_chain) ==
  IF ~new_code.parses THEN EditResult("ParserSyntaxError", content)
  ELSE IF Len(new_code.body) # 1 THEN EditResult("ValueError", content)
  ELSE IF ~content.parses THEN EditResult("ParserSyntaxError", content)
  ELSE LET new_body == InsertIntoContainer(content.body, new_code.body[1], lexical_chain)
       IN  IF Len(lexical_chain) = 0 \/ new_body = content.body
           THEN EditResult("none", Code(TopLevelInsert(content.body, new_code.body[1])))
           ELSE EditResult("none", Code(new_body))

\* insert_block(content, new_code, target_name, lexical_chain)
insert_block(content, new_code, lexical_chain) ==
  IF ~new_code.parses THEN EditResult("ParserSyntaxError", content)
  ELSE IF Len(new_code.body) # 1 THEN EditResult("ValueError", content)
  ELSE IF ~content.parses THEN EditResult("ParserSyntaxError", content)
  ELSE IF Len(lexical_chain) = 0
  THEN EditResult("none", Code(TopLevelInsert(content.body, new_code.body[1])))
  ELSE LET new_body == InsertIntoContainer(content.body, new_code.body[1], lexical_chain)
       IN  IF new_body = content.body
           THEN EditResult("ValueError", content)
           ELSE EditResult("none", Code(new_body))

\* Whether a statement of the fragment declares target_name, as the search
\* of replace_block over a fragment of several statements sees it.
FragmentNames(node, target_name) ==
  \/ node.kind \in {"def", "class"} /\ node.names[1] = target_name
  \/ is_assignment_to_name(node, target_name)

\* A statement replace_block takes as "the first def/class/assignment".
FragmentDeclares(node) ==
  \/ node.kind \in {"def", "class"}
  \/ node.kind = "assign" /\ Len(node.names) = 1

\* The first statement of a body among those at the positions given
First(body, positions) == body[CHOOSE i \in positions : \A j \in positions : i <= j]

\* The first part of replace_block: the replacement node chosen from the
\* parsed fragment and the kind inferred from it, or the exception raised.
ReplacementNode(new_code, target_name) ==
  LET body == new_code.body
      fail(e) == [exc |-> e, node |-> PassStmt]
      take(n) == [exc |-> "none", node |-> n]
  IN  IF ~new_code.parses THEN fail("ParserSyntaxError")
      ELSE IF Len(body) = 0 THEN fail("ValueError")
      ELSE IF Len(body) = 1
      THEN CASE body[1].kind \in {"def", "class"} -> take(body[1])
             [] body[1].kind = "assign" ->
                  IF Len(body[1].names) = 1 THEN take(body[1]) ELSE fail("ValueError")
             [] body[1].kind \in {"expr", "pass"} -> fail("UnboundLocalError")
             [] OTHER -> fail("ValueError")
      ELSE IF \E i \in 1..Len(body) : FragmentNames(body[i], target_name)
      THEN take(First(body, {i \in 1..Len(body) : FragmentNames(body[i], target_name)}))
      ELSE IF \E i \in 1..Len(body) : FragmentDeclares(body[i])
      THEN take(First(body, {i \in 1..Len(body) : FragmentDeclares(body[i])}))
      ELSE fail("ValueError")

InferredKind(node) == node.kind

\* replace_block(content, new_code, target_name, lexical_chain=...) ->
\* (modified_content, was_replaced), or the exception it raises.
replace_block(content, new_code, target_name, lexical_chain) ==
  LET r == ReplacementNode(new_code, target_name)
      unchanged(e) == [exc |-> e, code |-> content, replaced |-> FALSE]
      t == [target_name |-> target_name, chain |-> lexical_chain,
            kind |-> InferredKind(r.node), rep |-> r.node]
      primary == ReplaceDeclaration(content.body, t)
      stripped == remove_block(content, target_name, lexical_chain).code
      inserted == insert_block(stripped, new_code, lexical_chain)
  IN  IF r.exc # "none" THEN unchanged(r.exc)
      ELSE IF ~content.parses THEN unchanged("ParserSyntaxError")
      ELSE IF primary.replaced
      THEN [exc |-> "none", code |-> Code(primary.body), replaced |-> TRUE]
      ELSE IF target_exists(content, target_name, lexical_chain)
      THEN IF inserted.exc # "none" THEN unchanged(inserted.exc)
           ELSE [exc |-> "none", code |-> inserted.code, replaced |-> TRUE]
      ELSE [exc |-> "none", code |-> content, replaced |-> FALSE]

declare_source_swallowing(content, target_path, is_none, new_code) ==
  LET p == parse_lexical_chain(target_path)
      del == remove_block(content, p.target_name, p.chain)
      rep == replace_block(content, new_code, p.target_name, p.chain)
      ins == insert_block(content, new_code, p.chain)
      out(e, c, replaced, removed) ==
        [exc |-> e, content |-> c, was_replaced |-> replaced, removed |-> removed]
  IN  IF is_none THEN out("none", del.code, FALSE, del.removed)
      ELSE IF rep.exc # "none" THEN out("none", content, FALSE, FALSE)
      ELSE IF rep.replaced THEN out("none", rep.code, TRUE, FALSE)
      ELSE IF ins.exc # "none" THEN out("none", content, FALSE, FALSE)
      ELSE out("none", ins.code, FALSE, FALSE)

\* declare(file_path, target_path, new_code) on the content of the file:
\* what is written back (the content itself when it raises before writing),
\* the exception, and the flags it computed.  is_none: new_code is None.
declare_source(content, target_path, is_none, new_code) ==
  LET p == parse_lexical_chain(target_path)
      del == remove_block(content, p.target_name, p.chain)
      rep == replace_block(content, new_code, p.target_name, p.chain)
      ins == insert_block(content, new_code, p.chain)
      out(e, c, replaced, removed) ==
        [exc |-> e, content |-> c, was_replaced |-> replaced, removed |-> removed]
  IN  IF is_none THEN out("none", del.code, FALSE, del.removed)
      ELSE IF rep.exc # "none" THEN out(rep.exc, content, FALSE, FALSE)
      ELSE IF rep.replaced THEN out("none", rep.code, TRUE, FALSE)
      ELSE IF ins.exc # "none" THEN out(ins.exc, content, FALSE, FALSE)
      ELSE out("none", ins.code, FALSE, FALSE)

\* ------------------------------------------------- apply_modification_set
Positions(mods) == [i \in 1..Len(mods) |-> i]

\* A faulty variant: other_modifications built back to front.
other_modifications_reversed(mods) ==
  LET fwd == SelectSeq(Positions(mods), LAMBDA i : ~IsDescription(mods[i]))
  IN  [k \in 1..Len(fwd) |-> fwd[Len(fwd) + 1 - k]]

\* other_modifications, as positions in the modification list
other_modifications(mods) ==
  SelectSeq(Positions(mods), LAMBDA i : ~IsDescription(mods[i]))

\* accumulated_descriptions
accumulated_descriptions(mods) ==
  LET ds == SelectSeq(Positions(mods), LAMBDA i : IsDescription(mods[i]))
  IN  [k \in 1..Len(ds) |-> mods[ds[k]].text]

Terminal == {"Committed", "ReturnedNoCommit", "RolledBack", "RollbackFailed",
             "AwaitingManualDecision", "Refused", "CallerRolledBack",
             "CallerRollbackFailed"}

InitialCommit == [tree |-> InitialTree, message |-> <<"init">>, parent |-> 0]

\* Either a usable repository whose one file may have staged and unstaged
\* edits, or a clean place where the checkpoint cannot be taken.
NoCall == [target_path |-> <<>>, is_none |-> FALSE, new_code |-> Unparsable]
NoOutcome == [exc |-> "none", was_replaced |-> FALSE, removed |-> FALSE]

\* No source file is being edited.
\* No second call is under way and no function has been applied.
Batches == {1, 2}
NoOverlap ==
  /\ attr_manager = 0
  /\ bpc = [b \in Batches |-> "Idle"]
  /\ todo = [b \in Batches |-> <<>>]
  /\ managers = [b \in Batches |-> {}]
  /\ ran = [b \in Batches |-> {}]
  /\ committed_by = [b \in Batches |-> {}]

NoApplication == fn = "none" /\ given = <<>> /\ result = <<>>

NoEdits ==
  /\ src = Unparsable
  /\ original = Unparsable
  /\ before = Unparsable
  /\ call = NoCall
  /\ previous = NoCall
  /\ outcome = NoOutcome
  /\ edits = 0

\* No batch has been started.
Idle ==
  /\ head = Len(commits)
  /\ rollback_file = NoData
  /\ clock = 1
  /\ tracked_files = {}
  /\ accumulated_message = EmptyText
  /\ rollback_data = NoData
  /\ attrs = {}
  /\ pc = "Idle"
  /\ modifications = <<>>
  /\ auto_rollback_on_failure = TRUE
  /\ done = 0
  /\ exc = "none"
  /\ raised = "none"
  /\ batch = 0
  /\ invoked = <<>>
  /\ failedAt = 0
  /\ pre = [head |-> head, index |-> index, wt |-> wt]
  /\ ckpt = [commit |-> 0, ncommits |-> Len(commits), index |-> index, wt |-> wt]
  /\ resets = <<>>
  /\ stored = <<>>
  /\ entries = 0

Init ==
  /\ \/ /\ isRepo = TRUE /\ identity = TRUE /\ commits = <<InitialCommit>>
        /\ index \in { InitialTree, [InitialTree EXCEPT !["p1"] = "staged"] }
        /\ wt \in { index, [index EXCEPT !["p1"] = "dirty"] }
     \/ /\ \/ isRepo = FALSE /\ identity = TRUE /\ commits = <<>>
           \/ isRepo = TRUE /\ identity = TRUE /\ commits = <<>>
           \/ isRepo = TRUE /\ identity = FALSE /\ commits = <<InitialCommit>>
        /\ index = IF commits = <<>> THEN EmptyTree ELSE InitialTree
        /\ wt = InitialTree
  /\ Idle
  /\ NoEdits
  /\ NoOverlap
  /\ NoApplication

\* Lines 885-896: a fresh manager is attached to the five functions and the
\* pre-change checkpoint is taken; a failure propagates from here, outside the
\* try block.
BeginBatch ==
  /\ pc \in {"Idle"} \cup Terminal
  /\ batch < MaxBatches
  /\ \E mods \in ModLists(MaxOps - entries), auto \in BOOLEAN,
        o \in create_rollback_point([tracked_files |-> {}, rollback_data |-> NoData],
                                    BeforeMessage, FALSE) :
       /\ modifications' = mods
       /\ entries' = entries + Len(mods)
       /\ auto_rollback_on_failure' = auto
       /\ attrs' = FuncNames
       /\ tracked_files' = {}
       /\ accumulated_message' = EmptyText
       /\ rollback_data' = o.rollback_data
       /\ rollback_file' = o.rollback_file
       /\ index' = o.index
       /\ commits' = o.commits
       /\ head' = o.head
       /\ clock' = clock + 1
       /\ pc' = IF o.exc = "none" THEN "CheckpointEstablished" ELSE "Refused"
       /\ raised' = o.exc
       /\ pre' = [head |-> head, index |-> index, wt |-> wt]
       /\ ckpt' = [commit |-> o.rollback_data.commit_hash, ncommits |-> Len(o.commits),
                   index |-> o.index, wt |-> wt]
  /\ done' = 0
  /\ exc' = "none"
  /\ batch' = batch + 1
  /\ invoked' = <<>>
  /\ failedAt' = 0
  /\ resets' = <<>>
  /\ UNCHANGED <<editVars, overlapVars, pureVars>>
  /\ UNCHANGED <<isRepo, identity, wt, stored>>

\* Lines 898-911: the descriptions are taken out of the list and joined into
\* the manager's message buffer.
Partition ==
  /\ pc = "CheckpointEstablished"
  /\ accumulated_message' =
       IF accumulated_descriptions(modifications) # <<>>
       THEN accumulate_message(accumulated_message,
                               Join(accumulated_descriptions(modifications)))
       ELSE accumulated_message
  /\ pc' = "Applying"
  /\ UNCHANGED <<editVars, overlapVars, pureVars>>
  /\ UNCHANGED <<gitVars, tracked_files, rollback_data, attrs, modifications,
                 auto_rollback_on_failure, done, exc, raised, histVars>>

\* Lines 915-917: the next entry of other_modifications is called.
ApplyOp ==
  /\ pc = "Applying"
  /\ done < Len(other_modifications(modifications))
  /\ LET pos == other_modifications(modifications)[done + 1]
         r == Invoke(modifications[pos], tracked_files)
     IN  /\ wt' = r.wt
         /\ tracked_files' = r.tracked_files
         /\ invoked' = Append(invoked, pos)
         /\ IF r.ok
            THEN /\ done' = done + 1
                 /\ UNCHANGED <<pc, exc, failedAt>>
            ELSE /\ pc' = "Failed"
                 /\ exc' = r.exc
                 /\ failedAt' = pos
                 /\ UNCHANGED done
  /\ UNCHANGED <<editVars, overlapVars, pureVars>>
  /\ UNCHANGED <<isRepo, identity, commits, head, index, rollback_file, clock,
                 accumulated_message, rollback_data, attrs, modifications,
                 auto_rollback_on_failure, raised, batch, pre, ckpt, resets, stored, entries>>

\* Lines 919-928 and the finally block: with tracked files the final commit is
\* made (force_commit=True) under the accumulated message; the manager is
\* returned.  A failing create_rollback_point goes to the handler.
Finish ==
  /\ pc = "Applying"
  /\ done = Len(other_modifications(modifications))
  /\ IF tracked_files # {}
     THEN \E o \in create_rollback_point(
                     [tracked_files |-> tracked_files, rollback_data |-> rollback_data],
                     CommitMessage(accumulated_message), TRUE) :
            /\ accumulated_message' = EmptyText
            /\ rollback_data' = o.rollback_data
            /\ rollback_file' = o.rollback_file
            /\ index' = o.index
            /\ commits' = o.commits
            /\ head' = o.head
            /\ clock' = clock + 1
            /\ IF o.exc = "none"
               THEN /\ pc' = "Committed"
                    /\ attrs' = {}
                    /\ stored' = Append(stored, o.rollback_data.commit_hash)
                    /\ exc' = exc
               ELSE /\ pc' = "Failed"
                    /\ exc' = o.exc
                    /\ UNCHANGED <<attrs, stored>>
     ELSE /\ pc' = "ReturnedNoCommit"
          /\ attrs' = {}
          /\ stored' = Append(stored, rollback_data.commit_hash)
          /\ UNCHANGED <<accumulated_message, rollback_data, rollback_file, index,
                         commits, head, clock, exc>>
  /\ UNCHANGED <<editVars, overlapVars, pureVars>>
  /\ UNCHANGED <<isRepo, identity, wt, tracked_files, modifications,
                 auto_rollback_on_failure, done, raised, batch, invoked, failedAt,
                 pre, ckpt, resets, entries>>

\* A faulty variant: the handler re-raises without rolling back.
HandleFailureNoRollback ==
  /\ pc = "Failed"
  /\ pc' = IF auto_rollback_on_failure THEN "RollbackFailed" ELSE "AwaitingManualDecision"
  /\ raised' = exc
  /\ attrs' = {}
  /\ UNCHANGED <<editVars, overlapVars, pureVars>>
  /\ UNCHANGED <<gitVars, mgrVars, modifications, auto_rollback_on_failure, done, exc,
                 histVars>>

\* Lines 930-952: the handler rolls back hard to the stored rollback point
\* unless manual mode was asked for, re-raises, and the finally block detaches
\* the manager.
HandleFailure ==
  /\ pc = "Failed"
  /\ IF auto_rollback_on_failure
     THEN \E r \in hard_rollback(rollback_data) :
            /\ head' = r.head
            /\ index' = r.index
            /\ wt' = r.wt
            /\ resets' = Append(resets, rollback_data.commit_hash)
            /\ pc' = IF r.ok THEN "RolledBack" ELSE "RollbackFailed"
     ELSE /\ pc' = "AwaitingManualDecision"
          /\ UNCHANGED <<head, index, wt, resets>>
  /\ raised' = exc
  /\ attrs' = {}
  /\ UNCHANGED <<editVars, overlapVars, pureVars>>
  /\ UNCHANGED <<isRepo, identity, commits, rollback_file, clock, mgrVars,
                 modifications, auto_rollback_on_failure, done, exc, batch, invoked,
                 failedAt, pre, ckpt, stored, entries>>

\* The caller of a successful batch calls manager.hard_rollback().
CallerHardRollback ==
  /\ pc \in {"Committed", "ReturnedNoCommit"}
  /\ \E r \in hard_rollback(rollback_data) :
       /\ head' = r.head
       /\ index' = r.index
       /\ wt' = r.wt
       /\ resets' = Append(resets, rollback_data.commit_hash)
       /\ pc' = IF r.ok THEN "CallerRolledBack" ELSE "CallerRollbackFailed"
  /\ UNCHANGED <<editVars, overlapVars, pureVars>>
  /\ UNCHANGED <<isRepo, identity, commits, rollback_file, clock, mgrVars, attrs,
                 modifications, auto_rollback_on_failure, done, exc, raised, batch,
                 invoked, failedAt, pre, ckpt, stored, entries>>

Next ==
  \/ BeginBatch
  \/ Partition
  \/ ApplyOp
  \/ Finish
  \/ HandleFailure
  \/ CallerHardRollback

Spec == Init /\ [][Next]_vars

\* ------------------------------------------------------ declare on a file
\* The declarations a source file is built from: x is the name the calls
\* target, at module level, in class A, in class B of A, in function g, and
\* in a class A local to g; one assignment binds x and y in one statement.
OldDef == FunctionDef("x", <<Expr("old")>>)
OldAssign == Assign(<<"x">>, "old")
OldClass == ClassDef("x", <<Expr("old")>>)

Statements ==
  { OldDef, OldAssign, OldClass,
    Assign(<<"y">>, "old"),
    Assign(<<"x", "y">>, "old"),
    Expr("call"),
    ClassDef("A", <<OldDef>>),
    ClassDef("A", <<Assign(<<"y">>, "old")>>),
    ClassDef("A", <<OldAssign, ClassDef("B", <<OldAssign>>)>>),
    FunctionDef("g", <<OldAssign>>),
    FunctionDef("g", <<OldDef>>),
    FunctionDef("g", <<ClassDef("A", <<OldAssign>>)>>) }

\* The files: up to MaxStmts statements, with or without a trailing guard
\* block, and a file that does not parse.
Sources ==
  { Unparsable }
  \cup UNION { { Parsed(b), Parsed(b \o <<MainGuard>>) } :
               b \in UNION { [1..n -> Statements] : n \in 0..MaxStmts } }

NewDef == FunctionDef("x", <<Expr("new")>>)
NewAssign == Assign(<<"x">>, "new")
NewClass == ClassDef("x", <<Expr("new")>>)

\* The fragments: one declaration of each kind, two declarations, an empty
\* one and one that does not parse.
Fragments ==
  { Parsed(<<NewDef>>), Parsed(<<NewAssign>>), Parsed(<<NewClass>>),
    Parsed(<<NewDef, Assign(<<"y">>, "new")>>), Parsed(<<>>), Unparsable }

TargetPaths == { <<"x">>, <<"A", "x">>, <<"A", "B", "x">>, <<"g", "x">> }

InitEdit ==
  /\ isRepo = TRUE /\ identity = TRUE /\ commits = <<InitialCommit>>
  /\ index = InitialTree /\ wt = InitialTree
  /\ Idle
  /\ src \in Sources
  /\ original = src
  /\ before = src
  /\ call = NoCall
  /\ previous = NoCall
  /\ outcome = NoOutcome
  /\ edits = 0
  /\ NoOverlap
  /\ NoApplication

\* One call of declare on the file: the content is read, the call computes
\* the new content and writes it (nothing is written when it raises).
Declare(target_path, is_none, new_code) ==
  /\ edits < MaxEdits
  /\ LET r == declare_source(src, target_path, is_none, new_code)
     IN  /\ src' = r.content
         /\ outcome' = [exc |-> r.exc, was_replaced |-> r.was_replaced,
                        removed |-> r.removed]
  /\ before' = src
  /\ previous' = call
  /\ call' = [target_path |-> target_path, is_none |-> is_none, new_code |-> new_code]
  /\ edits' = edits + 1
  /\ UNCHANGED <<original, gitVars, mgrVars, ctlVars, histVars, overlapVars, pureVars>>

\* declare(file_path, target_path, new_code)
DeclareFragment == \E tp \in TargetPaths, f \in Fragments : Declare(tp, FALSE, f)

\* declare(file_path, target_path): new_code is None
DeclareNone == \E tp \in TargetPaths : Declare(tp, TRUE, Unparsable)

NextEdit ==
  \/ DeclareFragment
  \/ DeclareNone

SpecEdit == InitEdit /\ [][NextEdit]_vars

\* ------------------------------------- two calls that overlap in time
\* Two threads call apply_modification_set in one interpreter.  Each call
\* makes its own GitRollbackManager, but reaches it from the operations
\* through the _rollback_manager attribute of the functions, which the
\* interpreter holds once.  The operations are file creations, moves and
\* removals, taken by the paths they touch.
MaxOverlapOps == 2

PathLists == UNION { [1..n -> Paths] : n \in 1..MaxOverlapOps }

InitOverlap ==
  /\ isRepo = TRUE /\ identity = TRUE /\ commits = <<InitialCommit>>
  /\ index = InitialTree /\ wt = InitialTree
  /\ Idle
  /\ NoEdits
  /\ NoApplication
  /\ attr_manager = 0
  /\ bpc = [b \in Batches |-> "Idle"]
  /\ todo \in [Batches -> PathLists]
  /\ managers = [b \in Batches |-> {}]
  /\ ran = [b \in Batches |-> {}]
  /\ committed_by = [b \in Batches |-> {}]

\* Lines 885-896 of call b: a manager is made and set on the five functions.
Enter(b) ==
  /\ bpc[b] = "Idle"
  /\ bpc' = [bpc EXCEPT ![b] = "Applying"]
  /\ attr_manager' = b
  /\ managers' = [managers EXCEPT ![b] = {}]
  /\ UNCHANGED <<todo, ran, committed_by>>
  /\ UNCHANGED <<gitVars, mgrVars, ctlVars, histVars, editVars, pureVars>>

\* Lines 915-917 of call b: its next operation runs and tracks the path in
\* the manager the function's attribute holds, if it holds one.
RunOperation(b) ==
  /\ bpc[b] = "Applying"
  /\ todo[b] # <<>>
  /\ ran' = [ran EXCEPT ![b] = @ \cup {Head(todo[b])}]
  /\ managers' = IF attr_manager = 0 THEN managers
                 ELSE [managers EXCEPT ![attr_manager] = @ \cup {Head(todo[b])}]
  /\ todo' = [todo EXCEPT ![b] = Tail(@)]
  /\ UNCHANGED <<attr_manager, bpc, committed_by>>
  /\ UNCHANGED <<gitVars, mgrVars, ctlVars, histVars, editVars, pureVars>>

\* Lines 919-928 and 941-952 of call b: the tracked files of its own manager
\* are staged for the final commit and the finally block deletes the
\* attributes, whichever manager they hold.
Leave(b) ==
  /\ bpc[b] = "Applying"
  /\ todo[b] = <<>>
  /\ committed_by' = [committed_by EXCEPT ![b] = PathsToStage(managers[b])]
  /\ attr_manager' = 0
  /\ bpc' = [bpc EXCEPT ![b] = "Returned"]
  /\ UNCHANGED <<todo, managers, ran>>
  /\ UNCHANGED <<gitVars, mgrVars, ctlVars, histVars, editVars, pureVars>>

NextOverlap ==
  \/ \E b \in Batches : Enter(b)
  \/ \E b \in Batches : RunOperation(b)
  \/ \E b \in Batches : Leave(b)

SpecOverlap == InitOverlap /\ [][NextOverlap]_vars

\* ------------------------------------------ functions applied to a text
\* The dotted paths: texts of up to MaxChars characters, letters and dots.
MaxChars == 5

DottedPaths == UNION { [1..n -> {"a", "b", "."}] : n \in 0..MaxChars }

InitParse ==
  /\ isRepo = TRUE /\ identity = TRUE /\ commits = <<InitialCommit>>
  /\ index = InitialTree /\ wt = InitialTree
  /\ Idle
  /\ NoEdits
  /\ NoOverlap
  /\ NoApplication

Apply(f, x, y) ==
  /\ fn' = f
  /\ given' = x
  /\ result' = y
  /\ UNCHANGED <<gitVars, mgrVars, ctlVars, histVars, editVars, overlapVars>>

\* parse_lexical_chain(target_path)
ParseLexicalChain ==
  \E target_path \in DottedPaths :
    Apply("parse_lexical_chain", target_path, parse_lexical_chain(split(target_path)))

\* A line of a patch file is its characters, the line end included when the
\* file has one there (str.splitlines(keepends=True)).
Marker == <<"@", "@", "@", "@", "@", "@">>
SeparatorLine == Marker \o Newline
EscapedLine == <<"\\">> \o Marker \o Newline
\* The lines with a line end: the two above, a text line, a blank line and a
\* line of seven markers; and the lines without one.
EndedLines ==
  {SeparatorLine, EscapedLine, <<"x", "\n">>, Newline, Marker \o <<"@", "\n">>}
UnendedLines == {Marker, <<"x">>}

\* The blocks of up to MaxLines lines: only the last line of a file can lack
\* its line end.
MaxLines == 3

Blocks ==
  { block_lines \in UNION { [1..n -> EndedLines \cup UnendedLines] : n \in 0..MaxLines } :
      \A i \in 1..(Len(block_lines) - 1) : block_lines[i] \in EndedLines }

\* ln[:n]
Prefix(ln, n) == SubSeq(ln, 1, IF n < Len(ln) THEN n ELSE Len(ln))

\* "".join(sec)
RECURSIVE JoinLines(_)
JoinLines(sec) == IF sec = <<>> THEN <<>> ELSE Head(sec) \o JoinLines(Tail(sec))

\* The loop of _split_sections over block_lines from line i on: sections is
\* the list of line lists built so far.
RECURSIVE SplitLoop(_, _, _)
SplitLoop(block_lines, i, sections) ==
  IF i > Len(block_lines) THEN sections
  ELSE LET ln == block_lines[i]
           last == Len(sections)
       IN  IF Prefix(ln, 7) = SeparatorLine
             THEN SplitLoop(block_lines, i + 1, Append(sections, <<>>))
           ELSE LET kept == IF Prefix(ln, 7) = <<"\\">> \o Marker THEN Tail(ln) ELSE ln
                IN  SplitLoop(block_lines, i + 1,
                              [sections EXCEPT ![last] = Append(@, kept)])

\* txt with a single trailing newline stripped
StripNewline(txt) ==
  IF txt # <<>> /\ txt[Len(txt)] = "\n" THEN SubSeq(txt, 1, Len(txt) - 1) ELSE txt

\* _split_sections(block_lines)
split_sections(block_lines) ==
  LET sections == SplitLoop(block_lines, 1, << <<>> >>)
  IN  [k \in 1..Len(sections) |-> StripNewline(JoinLines(sections[k]))]

SplitSections ==
  \E block_lines \in Blocks :
    Apply("_split_sections", block_lines, split_sections(block_lines))

\* A stanza header line as the patch files write it.
HeaderLine == <<"M", "M", "M", " ", "f", " ", "M", "M", "M", "\n">>

\* The files of up to MaxLines lines, header lines among them.
Files == UNION { [1..n -> EndedLines \cup {HeaderLine}] : n \in 0..MaxLines }

\* The names modify_code imports from code_mod_defs and the names
\* code_mod_defs defines at its top level.
ImportedNames ==
  {"modification_description", "create_file", "move_file", "declare",
   "update_declaration", "remove_declaration", "update_file", "make_directory",
   "remove_file", "module_header"}
CodeModDefsNames ==
  {"_target_exists", "_is_assignment_to_name", "_DeletionTransformer",
   "remove_block", "InsertIntoContainer", "GitRollbackManager",
   "parse_lexical_chain", "ReplaceDeclaration", "replace_block", "insert_block",
   "declare", "move_file", "make_directory", "remove_file",
   "modification_description", "apply_modification_set", "interactive_rollback",
   "open_with_mkdir", "update_file", "create_file"}

Raises(exception) == [raised |-> exception, entries |-> <<>>]

\* parse_modification_file(path), lines being the lines of the file: the
\* loop's first statement looks up the global _HEADER_RE, a name the module
\* binds nowhere; with no line the loop is skipped and no entry was made.
parse_modification_file(lines) ==
  IF lines = <<>> THEN Raises("ValueError") ELSE Raises("NameError")

\* from modify_code import parse_modification_file, then the call.
ParseModificationFile ==
  \E lines \in Files :
    Apply("parse_modification_file", lines,
          IF ImportedNames \subseteq CodeModDefsNames
            THEN parse_modification_file(lines)
          ELSE Raises("ImportError"))

NextParse ==
  \/ ParseLexicalChain
  \/ SplitSections
  \/ ParseModificationFile

SpecParse == InitParse /\ [][NextParse]_vars

\* ------------------------------------------------------------------ claims
Invoked(k) == modifications[invoked[k]]

\* The paths touched by the operations invoked so far.
TouchedPaths == UNION { Touches(Invoked(k)) : k \in 1..Len(invoked) }

Returned == {"Committed", "ReturnedNoCommit"}
FailedBatch == {"RolledBack", "RollbackFailed", "AwaitingManualDecision"}

\* The description texts of a list from position i on, joined by newlines,
\* read off the list entry by entry.
RECURSIVE DescriptionText(_, _)
DescriptionText(mods, i) ==
  IF i > Len(mods) THEN EmptyText
  ELSE IF ~IsDescription(mods[i]) THEN DescriptionText(mods, i + 1)
  ELSE IF \E j \in (i + 1)..Len(mods) : IsDescription(mods[j])
       THEN mods[i].text \o Newline \o DescriptionText(mods, i + 1)
       ELSE mods[i].text

\* C1: when the checkpoint cannot be established (no repository, no HEAD, no
\* identity, or the checkpoint commit fails) the call raises and no operation
\* of the batch has run: nothing is invoked, tracked or changed on disk; and
\* an operation runs only under an established checkpoint.
C1_RefusedBeforeMutation ==
  batch > 0 =>
    /\ (~isRepo \/ pre.head = 0 \/ ~identity) => pc = "Refused"
    /\ pc = "Refused" =>
         /\ raised # "none"
         /\ invoked = <<>> /\ tracked_files = {} /\ wt = pre.wt
         /\ Len(commits) = ckpt.ncommits /\ head = pre.head
    /\ invoked # <<>> =>
         /\ ckpt.commit \in 1..Len(commits)
         /\ rollback_data.commit_hash # 0
         /\ raised = "none" \/ pc \notin {"Applying", "Failed"}

C1_Witness ==
  /\ pc = "Refused"
  /\ raised = "Failed to create git commit"
  /\ other_modifications(modifications) # <<>>

\* C2: with auto_rollback_on_failure, once an operation has raised no later
\* operation is invoked, and when control is back with the caller exactly one
\* hard rollback, to the pre-batch checkpoint, has been invoked and the
\* caller sees the exception the operation raised.
C2_FailureRollsBack ==
  (failedAt # 0 /\ auto_rollback_on_failure) =>
    /\ invoked[Len(invoked)] = failedAt
    /\ pc \in {"Failed", "RolledBack", "RollbackFailed"}
    /\ exc \in {"FileNotFoundError", "ParserSyntaxError"}
    /\ pc = "Failed" => resets = <<>> /\ raised = "none"
    /\ pc # "Failed" => resets = <<ckpt.commit>> /\ raised = exc

C2_Witness ==
  /\ pc = "RolledBack"
  /\ failedAt # 0
  /\ done >= 1
  /\ Len(other_modifications(modifications)) > Len(invoked)

\* C3 as claimed: in RolledBack every path, and so every path the operations
\* wrote, created, moved or removed, has the content (or the absence) it has
\* in the checkpoint snapshot.
C3_Original ==
  (pc = "RolledBack" /\ failedAt # 0) =>
    \A p \in Paths : wt[p] = Tree(ckpt.commit)[p]

\* C3 as amended: in RolledBack HEAD and the index are the checkpoint, and
\* every path the checkpoint snapshot holds has its checkpoint content in the
\* working tree (a path the snapshot does not hold may keep a file the batch
\* put there).
C3_RolledBackRestoresSnapshot ==
  pc = "RolledBack" =>
    /\ head = ckpt.commit
    /\ index = Tree(ckpt.commit)
    /\ \A p \in Paths : Tree(ckpt.commit)[p] # Absent => wt[p] = Tree(ckpt.commit)[p]

C3_Witness ==
  /\ pc = "RolledBack"
  /\ \E k \in 1..done : Invoked(k).f \in {"remove_file", "move_file"}
  /\ wt["p1"] = Tree(ckpt.commit)["p1"]
  /\ wt["p2"] # Absent

\* Nothing the batch wrote is staged or committed: what is staged was staged
\* when the call began, what HEAD holds was committed or staged then.
NothingOfBatchStaged ==
  \A p \in Paths :
    /\ index[p] # Tree(head)[p] => index[p] = pre.index[p]
    /\ Tree(head)[p] \in {Tree(pre.head)[p], pre.index[p]}

C5_Claim ==
  (pc \in Returned /\ wt # ckpt.wt) =>
    /\ pc = "Committed"
    /\ head # pre.head
    /\ \A p \in Paths : wt[p] # ckpt.wt[p] => Tree(head)[p] = wt[p]

\* C6: after a successful batch the stored rollback point is the pre-batch
\* state: it is not the new HEAD, two successive batches store different
\* points, and hard_rollback() brings the files the batch changed back to
\* their pre-batch content.
C6_Claim ==
  /\ pc = "Committed" => rollback_data.commit_hash # head
  /\ Len(stored) = 2 => stored[1] # stored[2]
  /\ pc = "CallerRolledBack" => \A p \in TouchedPaths : wt[p] = ckpt.wt[p]

\* C7: when the final commit of a batch is created, every path an operation
\* of the batch created, rewrote, moved or removed is in tracked_files.
C7_Claim ==
  pc = "Committed" => TouchedPaths \subseteq tracked_files

C9_InListOrder ==
  \A k \in 1..Len(invoked) :
    /\ ~IsDescription(Invoked(k))
    /\ k > 1 => invoked[k - 1] < invoked[k]
    /\ \A i \in 1..(invoked[k] - 1) :
         ~IsDescription(modifications[i]) => \E j \in 1..(k - 1) : invoked[j] = i
    /\ k < Len(invoked) => invoked[k] # failedAt /\ k <= done

C9_Witness ==
  /\ Len(invoked) = 2
  /\ invoked[2] = invoked[1] + 2
  /\ IsDescription(modifications[invoked[1] + 1])
  /\ done = 2

\* While a batch runs, only the operations invoked account for changed or
\* tracked paths.
OnlyInvokedOperationsAct ==
  pc \in {"CheckpointEstablished", "Applying", "Failed", "Committed",
          "ReturnedNoCommit", "AwaitingManualDecision"} =>
    \A p \in Paths : (wt[p] # ckpt.wt[p] \/ p \in tracked_files) => p \in TouchedPaths

\* C10 as claimed: a description changes no file and tracks no path, and the
\* final commit's message is the descriptions joined by newlines, the default
\* message when the batch has no description.
C10_Original ==
  /\ OnlyInvokedOperationsAct
  /\ pc = "Committed" =>
       commits[head].message =
         IF \E i \in 1..Len(modifications) : IsDescription(modifications[i])
         THEN DescriptionText(modifications, 1)
         ELSE DefaultMessage

\* C10 as amended: ... the default message when the joined description text
\* is empty (no description, or a single empty one).
C10_DescriptionsOnlyNameTheCommit ==
  /\ OnlyInvokedOperationsAct
  /\ pc = "Committed" =>
       commits[head].message =
         IF DescriptionText(modifications, 1) # EmptyText
         THEN DescriptionText(modifications, 1)
         ELSE DefaultMessage

C10_Witness ==
  /\ pc = "Committed"
  /\ Len(accumulated_descriptions(modifications)) = 2
  /\ commits[head].message = <<"a", "\n">>

\* C11: when the final commit has failed after the operations were applied
\* (the handler runs although no operation raised), the handler leaves the
\* working tree as the operations left it, adds no commit, and the caller
\* sees the error.
C11_Claim ==
  [][(pc = "Failed" /\ failedAt = 0) =>
       (wt' = wt /\ commits' = commits /\ raised' = exc /\ exc # "none")]_vars

\* C12: in manual mode a failed batch has performed no reset, the caller sees
\* the error, HEAD is the checkpoint, and the stored rollback point, in the
\* manager and in the rollback log, is the pre-batch checkpoint.
C12_Claim ==
  pc = "AwaitingManualDecision" =>
    /\ resets = <<>>
    /\ raised = exc /\ raised # "none"
    /\ head = ckpt.commit
    /\ rollback_data.commit_hash = ckpt.commit
    /\ rollback_file.commit_hash = ckpt.commit

\* -------------------------------------------------- claims about declare
\* A statement declares a name: a function or class of that name, or an
\* assignment with that name among its targets.
Declares(stmt, name) ==
  \/ stmt.kind \in {"def", "class"} /\ stmt.names[1] = name
  \/ is_assignment_to_name(stmt, name)

RECURSIVE Concat(_)
Concat(seqs) == IF Len(seqs) = 0 THEN <<>> ELSE Head(seqs) \o Concat(Tail(seqs))

\* The direct members of the scope a lexical chain names, counted from the
\* module root through classes and functions alike.
RECURSIVE ScopeOf(_, _)
ScopeOf(body, chain) ==
  IF Len(chain) = 0 THEN body
  ELSE Concat([i \in 1..Len(body) |->
                 IF body[i].kind \in {"def", "class"} /\ body[i].names[1] = Head(chain)
                 THEN ScopeOf(body[i].body, Tail(chain))
                 ELSE <<>>])

\* The declarations of a file that match the target (name, chain)
Matching(code, target_path) ==
  LET p == parse_lexical_chain(target_path)
  IN  SelectSeq(ScopeOf(code.body, p.chain), LAMBDA s : Declares(s, p.target_name))

\* Every declaration of the name in the tree, at whatever depth
RECURSIVE Anywhere(_, _)
Anywhere(body, name) ==
  Concat([i \in 1..Len(body) |->
            (IF Declares(body[i], name) THEN <<body[i]>> ELSE <<>>)
            \o Anywhere(body[i].body, name)])

\* The last call was declare with a fragment of one declaration and returned.
Replaced1 ==
  /\ edits >= 1 /\ ~call.is_none /\ outcome.exc = "none"
  /\ Len(call.new_code.body) = 1

\* The last call was declare without a fragment.
Deleted == edits >= 1 /\ call.is_none

\* C13: declare with a fragment, on a file with N >= 1 declarations matching
\* the target, leaves exactly one matching declaration: the fragment's.
C13_Claim ==
  (Replaced1 /\ Len(Matching(before, call.target_path)) >= 1) =>
    Matching(src, call.target_path) = call.new_code.body

\* C14: declare without a fragment leaves no declaration matching the
\* target, of whatever kind, and removed is reported exactly when one existed.
C14_Claim ==
  Deleted =>
    /\ Len(Matching(src, call.target_path)) = 0
    /\ outcome.removed <=> Len(Matching(before, call.target_path)) >= 1

\* C15: a delete removes direct members of the scope the exact chain names
\* only: the same-named declarations elsewhere in the file are all still
\* there.
OutsideScope(code, target_path) ==
  Len(Anywhere(code.body, parse_lexical_chain(target_path).target_name))
    - Len(Matching(code, target_path))

C15_Claim ==
  Deleted => OutsideScope(src, call.target_path) = OutsideScope(before, call.target_path)

\* C16: a replace with an empty chain leaves every class, function and block
\* of the module that does not itself declare the name as it was, and
\* reports no replacement when the name is declared in nested scopes only.
C16_Claim ==
  (Replaced1 /\ call.target_path = <<"x">>) =>
    /\ \A i \in 1..Len(before.body) :
         (Len(before.body[i].body) > 0 /\ ~Declares(before.body[i], "x")) =>
           \E j \in 1..Len(src.body) : src.body[j] = before.body[i]
    /\ Len(Matching(before, call.target_path)) = 0 => ~outcome.was_replaced

\* C17: when a declaration matching the target exists, declare with a
\* fragment reports the replacement and no matching declaration keeps the old
\* code.
C17_Claim ==
  (Replaced1 /\ Len(Matching(before, call.target_path)) >= 1) =>
    /\ outcome.was_replaced
    /\ \A k \in 1..Len(Matching(src, call.target_path)) :
         Matching(src, call.target_path)[k] = call.new_code.body[1]

\* C18: the same declare made a second time leaves the file as the first
\* call left it.
C18_Claim ==
  (edits >= 2 /\ call = previous /\ ~call.is_none /\ outcome.exc = "none") =>
    src = before

\* The statement a top-level insertion has to stay in front of: the guard
\* block, or an executable statement that follows a declaration.
IsMarker(body, i) ==
  \/ body[i].kind = "if"
  \/ /\ body[i].kind = "expr"
     /\ \E j \in 1..(i - 1) : body[j].kind \in {"def", "class", "assign"}

\* C19: a top-level insert into a module with a guard block or trailing
\* executable statements puts the new declaration before the first of them.
C19_Claim ==
  (/\ Replaced1 /\ call.target_path = <<"x">> /\ ~outcome.was_replaced
   /\ \E i \in 1..Len(before.body) : IsMarker(before.body, i)) =>
    \E k \in 1..Len(src.body) :
      /\ src.body[k] = call.new_code.body[1]
      /\ \A i \in 1..k : ~IsMarker(src.body, i)

\* C20: a module that ended with the guard block before the first declare
\* ends with it after every declare.
C20_Claim ==
  (original.parses /\ Len(original.body) > 0
   /\ original.body[Len(original.body)] = MainGuard) =>
    /\ Len(src.body) > 0
    /\ src.body[Len(src.body)] = MainGuard

\* The scope of a replace as substitution in place leaves it: the new
\* declaration where the first match stood, the later matches gone, every
\* other member where it was.
SubstituteFirst(scope, name, rep) ==
  LET matches == {i \in 1..Len(scope) : Declares(scope[i], name)}
  IN  Concat([i \in 1..Len(scope) |->
                IF i \in matches
                THEN IF \A j \in matches : i <= j THEN <<rep>> ELSE <<>>
                ELSE <<scope[i]>>])

\* C21: a replace puts the new declaration at the position of the first
\* original match, deletes the later matches, and leaves the other members
\* of the scope in their order.
C21_Claim ==
  (Replaced1 /\ Len(Matching(before, call.target_path)) >= 1) =>
    LET p == parse_lexical_chain(call.target_path)
    IN  ScopeOf(src.body, p.chain) =
          SubstituteFirst(ScopeOf(before.body, p.chain), p.target_name,
                          call.new_code.body[1])

\* The chain names the module itself or a container the file has.
ContainerExists(code, chain) ==
  code.parses /\ (Len(chain) = 0 \/ Len(ScopeOf(code.body, chain)) > 0)

\* The positions of a statement among the members of a scope
PositionsOf(scope, stmt) == {i \in 1..Len(scope) : scope[i] = stmt}

\* The last call was declare with a fragment of two or more declarations, on
\* a file that parses and has the container the chain names.
DeclaredSeveral ==
  /\ edits >= 1 /\ ~call.is_none
  /\ call.new_code.parses /\ Len(call.new_code.body) >= 2
  /\ ContainerExists(before, parse_lexical_chain(call.target_path).chain)

\* C22: declare with a fragment of two or more declarations returns and
\* leaves each of them exactly once in the scope of the chain, in the order
\* of the fragment.
C22_Claim ==
  DeclaredSeveral =>
    LET scope == ScopeOf(src.body, parse_lexical_chain(call.target_path).chain)
        frag == call.new_code.body
    IN  /\ outcome.exc = "none"
        /\ \A i \in 1..Len(frag) : Cardinality(PositionsOf(scope, frag[i])) = 1
        /\ \A i, j \in 1..Len(frag) :
             i < j => \A a \in PositionsOf(scope, frag[i]),
                        b \in PositionsOf(scope, frag[j]) : a < b

\* The two calls made so far were declare(path, "x", X), X one declaration,
\* on a module with no declaration of x, then declare(path, "x") without a
\* fragment.
InsertedThenDeleted ==
  /\ edits = 2
  /\ original.parses /\ Len(Matching(original, <<"x">>)) = 0
  /\ previous.target_path = <<"x">> /\ ~previous.is_none
  /\ previous.new_code.parses /\ Len(previous.new_code.body) = 1
  /\ call.target_path = <<"x">> /\ call.is_none

\* C23: an insert of a name the module does not declare, followed by the
\* delete of that name, leaves the declarations the module had, in their
\* order.
C23_Claim == InsertedThenDeleted => src = original

\* What a file holds besides the target: the direct members of the scope the
\* chain names that declare the name are taken out, a statement that binds
\* another name as well keeps that binding.
RECURSIVE StripScope(_, _, _)
StripScope(body, chain, name) ==
  IF Len(chain) = 0
  THEN Concat([i \in 1..Len(body) |->
                 IF body[i].kind \in {"def", "class"} /\ body[i].names[1] = name
                 THEN <<>>
                 ELSE IF is_assignment_to_name(body[i], name)
                 THEN LET rest == SelectSeq(body[i].names, LAMBDA n : n # name)
                      IN  IF Len(rest) = 0 THEN <<>>
                          ELSE <<[body[i] EXCEPT !.names = rest]>>
                 ELSE <<body[i]>>])
  ELSE [i \in 1..Len(body) |->
          IF body[i].kind \in {"def", "class"} /\ body[i].names[1] = Head(chain)
          THEN [body[i] EXCEPT !.body = StripScope(@, Tail(chain), name)]
          ELSE body[i]]

Others(code, target_path) ==
  LET p == parse_lexical_chain(target_path)
  IN  CodeOfBody(StripScope(code.body, p.chain, p.target_name))

\* C24: a replace or a delete of a target leaves every declaration and
\* binding of another name or another chain as it was and in its order, a
\* different name bound in the statement of the target included.
C24_Claim ==
  (\/ Replaced1 /\ Len(Matching(before, call.target_path)) >= 1
   \/ Deleted /\ before.parses) =>
    Others(src, call.target_path) = Others(before, call.target_path)

\* The last call was declare with a fragment that replaced nothing, so that
\* it went on to insert_block, with a chain that names no container of the
\* file.
InsertedIntoMissingContainer ==
  /\ edits >= 1 /\ ~call.is_none /\ ~outcome.was_replaced
  /\ Len(parse_lexical_chain(call.target_path).chain) > 0
  /\ ~ContainerExists(before, parse_lexical_chain(call.target_path).chain)

\* C25: an insert with a non-empty chain that names no container of the
\* file raises and leaves the file as it was.
C25_MissingContainerRaises ==
  InsertedIntoMissingContainer => (outcome.exc # "none" /\ src = before)

\* The insert of one declaration into a file that parses and has other
\* containers was refused because the chain names none of them.
C25_Witness ==
  /\ InsertedIntoMissingContainer
  /\ before.parses /\ call.new_code.parses /\ Len(call.new_code.body) = 1
  /\ \E i \in 1..Len(before.body) : before.body[i].kind \in {"def", "class"}
  /\ outcome.exc = "ValueError" /\ src = before

\* The last call was declare without a fragment, on a file that parses and
\* has no declaration matching the target at the scope the chain names.
DeletedMissing ==
  Deleted /\ before.parses /\ Len(Matching(before, call.target_path)) = 0

\* C26: a delete whose target does not exist at the exact scope leaves the
\* file as it was, returns without raising, and reports that nothing was
\* removed.
C26_Claim ==
  DeletedMissing => (src = before /\ outcome.exc = "none" /\ ~outcome.removed)

\* The last call met a parse failure: the file does not parse, or the
\* fragment it was given does not.
ParseFailed ==
  /\ edits >= 1
  /\ ~before.parses \/ (~call.is_none /\ ~call.new_code.parses)

InsertedNested ==
  /\ Replaced1 /\ ~outcome.was_replaced
  /\ Len(parse_lexical_chain(call.target_path).chain) > 0

\* A body with the node added as the last member of every container the
\* chain names from the root of the body.
RECURSIVE AppendAt(_, _, _)
AppendAt(body, chain, node) ==
  [i \in 1..Len(body) |->
     IF body[i].kind \in {"def", "class"} /\ body[i].names[1] = Head(chain)
     THEN [body[i] EXCEPT !.body = IF Len(chain) = 1 THEN Append(@, node)
                                   ELSE AppendAt(@, Tail(chain), node)]
     ELSE body[i]]

CheckpointReturns == pc \in {"Idle"} \cup Terminal /\ pc' = "CheckpointEstablished"
FinalCommitReturns == pc = "Applying" /\ pc' = "Committed"

\* The rollback point the call returned names HEAD as it is after the call.
ReturnedClean ==
  /\ commits' = commits /\ head' = head
  /\ rollback_data'.was_clean /\ rollback_data'.commit_hash = head
ReturnedCommit ==
  /\ Len(commits') = Len(commits) + 1 /\ head' = Len(commits')
  /\ commits'[head'].parent = head /\ commits'[head'].tree = index'
  /\ ~rollback_data'.was_clean /\ rollback_data'.commit_hash = head'

HardRollbackReturnsTrue ==
  pc' \in {"RolledBack", "CallerRolledBack"} /\ pc' # pc

\* C30: when hard_rollback returns True, HEAD and the index are the commit
\* it was given and every path git tracks, in the index or in that commit,
\* has the content (or the absence) it has in that commit.
C30_HardRollbackRestoresTracked ==
  [][HardRollbackReturnsTrue =>
       LET id == rollback_data.commit_hash
       IN  /\ id # 0 /\ head' = id /\ index' = Tree(id)
           /\ \A p \in Paths :
                (index[p] # Absent \/ Tree(id)[p] # Absent) => wt'[p] = Tree(id)[p]]_vars

\* The caller of a returned batch rolled back hard and the edit that was in
\* the working tree since before the batch is gone.
C30_Witness ==
  /\ pc = "CallerRolledBack"
  /\ pre.wt["p1"] = "dirty"
  /\ head = resets[Len(resets)]
  /\ wt["p1"] = Tree(head)["p1"]

\* The step is a call of create_rollback_point that raised: the pre-change
\* checkpoint was refused, or the final commit failed.
CheckpointRaises ==
  \/ pc \in {"Idle"} \cup Terminal /\ pc' = "Refused"
  \/ /\ pc = "Applying" /\ pc' = "Failed"
     /\ done = Len(other_modifications(modifications))

\* The rollback point of the manager that made the call and the rollback log
\* are as they were before the call (the pre-change checkpoint is taken by a
\* manager that has just been made and stores nothing).
RollbackPointUnchanged ==
  /\ rollback_file' = rollback_file
  /\ rollback_data' = IF pc' = "Refused" THEN NoData ELSE rollback_data

\* C31: a create_rollback_point that raises leaves the index, HEAD and the
\* stored rollback point as they were before the call.
C31_Claim ==
  [][CheckpointRaises =>
       (index' = index /\ head' = head /\ commits' = commits
        /\ RollbackPointUnchanged)]_vars

\* C32: no failing git call of a batch goes unreported: a checkpoint taken
\* with changes staged is a commit (the staged-changes check did not fail
\* silently), the commit of a returned batch holds every tracked path as the
\* batch left it (no git add failed silently), and when the reset of the
\* automatic rollback failed the caller is raised something other than the
\* operation's own error.
C32_Claim ==
  /\ (pc = "CheckpointEstablished" /\ pre.index # Tree(pre.head)) =>
       ~rollback_data.was_clean
  /\ pc = "Committed" => \A p \in tracked_files : Tree(head)[p] = wt[p]
  /\ pc = "RollbackFailed" => raised # exc

C34_Claim ==
  \A b \in Batches :
    /\ managers[b] \subseteq ran[b]
    /\ bpc[b] = "Returned" => (managers[b] = ran[b] /\ committed_by[b] = ran[b])

\* -------------------------------------------- claims about the parsers
\* '.'.join(parts)
RECURSIVE JoinDots(_)
JoinDots(parts) ==
  IF Len(parts) = 0 THEN <<>>
  ELSE IF Len(parts) = 1 THEN parts[1]
  ELSE parts[1] \o <<".">> \o JoinDots(Tail(parts))

NoDot(chars) == \A i \in 1..Len(chars) : chars[i] # "."

\* C35: parse_lexical_chain gives the last component of a dotted path as the
\* name and the components before it, in order, as the chain: no component
\* holds a dot, a path with k dots has a chain of k components (none for a
\* bare name), and the chain and the name joined with dots are the path.
C35_LastComponentAndChain ==
  fn = "parse_lexical_chain" =>
    /\ NoDot(result.target_name)
    /\ \A i \in 1..Len(result.chain) : NoDot(result.chain[i])
    /\ Len(result.chain) = Cardinality({i \in 1..Len(given) : given[i] = "."})
    /\ JoinDots(Append(result.chain, result.target_name)) = given

\* The path a.b.a was split into the chain a, b and the name a.
C35_Witness ==
  /\ fn = "parse_lexical_chain"
  /\ given = <<"a", ".", "b", ".", "a">>
  /\ result.target_name = <<"a">>
  /\ result.chain = << <<"a">>, <<"b">> >>

\* A line that is exactly '@@@@@@', whether or not a line end follows it.
IsSeparatorLine(ln) == StripNewline(ln) = Marker

\* A line written '\@@@@@@' read as the literal text '@@@@@@'.
Written(ln) == IF StripNewline(ln) = <<"\\">> \o Marker THEN Tail(ln) ELSE ln

\* The lines of a block grouped between its separator lines, in order: one
\* group more than there are separator lines, empty groups included.
RECURSIVE SectionsOf(_, _)
SectionsOf(block_lines, current) ==
  IF block_lines = <<>> THEN <<current>>
  ELSE IF IsSeparatorLine(Head(block_lines))
         THEN <<current>> \o SectionsOf(Tail(block_lines), <<>>)
  ELSE SectionsOf(Tail(block_lines), Append(current, Written(Head(block_lines))))

\* C37: _split_sections splits a block at every separator line '@@@@@@': k
\* separator lines give exactly k+1 sections in order, empty sections
\* (trailing ones too) are kept, and a line written '\@@@@@@' stays in its
\* section as the literal text '@@@@@@'.
C37_Claim ==
  fn = "_split_sections" =>
    /\ Len(result) = 1 + Cardinality({i \in 1..Len(given) : IsSeparatorLine(given[i])})
    /\ result = [k \in 1..Len(SectionsOf(given, <<>>)) |->
                   StripNewline(JoinLines(SectionsOf(given, <<>>)[k]))]

\* C36: parse_modification_file yields one entry per stanza header, in the
\* order of the stanzas in the file.
C36_Claim ==
  (fn = "parse_modification_file" /\ \E i \in 1..Len(given) : given[i] = HeaderLine) =>
    /\ result.raised = "none"
    /\ Len(result.entries) = Cardinality({i \in 1..Len(given) : given[i] = HeaderLine})

\* The steps of one run as the state machine draws them: a call starts from
\* Idle or from the end of an earlier call and either is refused or has its
\* checkpoint; a successful run returns with or without a commit to make; a
\* failed run is rolled back, or left to the caller in manual mode.
RunSteps ==
  ((({"Idle"} \cup Terminal) \X {"CheckpointEstablished", "Refused"})
   \cup {<<"CheckpointEstablished", "Applying">>,
         <<"Applying", "Committed">>, <<"Applying", "ReturnedNoCommit">>,
         <<"Applying", "Failed">>,
         <<"Failed", IF auto_rollback_on_failure THEN "RolledBack"
                     ELSE "AwaitingManualDecision">>})

\* The manager's owner acting on a returned manager, after the run.
CallerSteps == Returned \X {"CallerRolledBack", "CallerRollbackFailed"}

\* C38: a run follows Idle -> CheckpointEstablished -> Applying ->
\* {Committed | Failed -> RolledBack} (AwaitingManualDecision in manual mode):
\* no operation runs before the checkpoint, the batch's commit is made only
\* after every operation succeeded, and after the run's terminal state nothing
\* more is run, committed or reset by it.
C38_Claim ==
  [][/\ pc' # pc => <<pc, pc'>> \in RunSteps \cup CallerSteps
     /\ (invoked' # invoked /\ invoked' # <<>>)
          => (pc = "Applying" /\ ckpt.commit = rollback_data.commit_hash
              /\ rollback_data # NoData)
     /\ (pc = "Applying" /\ commits' # commits)
          => (done = Len(other_modifications(modifications))
              /\ failedAt = 0 /\ pc' = "Committed")
     /\ (pc \in Terminal /\ pc' \notin {"CheckpointEstablished", "Refused"}
                         /\ <<pc, pc'>> \notin CallerSteps)
          => UNCHANGED <<wt, index, head, commits, invoked>>]_vars

\* C39: once apply_modification_set has returned or raised (success,
\* operation failure, refused checkpoint) none of the five functions still
\* holds a _rollback_manager attribute.
C39_Claim == pc \in Terminal => attrs = {}

\* The paths no operation of the batch touched.
Untouched == Paths \ TouchedPaths

\* C40 as claimed: after a failed batch with automatic rollback every file
\* the batch never touched is as it was before the batch, edits that were
\* neither staged nor committed included.
C40_Original ==
  pc = "RolledBack" => \A p \in Untouched : wt[p] = pre.wt[p]

\* C40 as amended: after a failed batch with automatic rollback every
\* untouched path that git tracks has the content of the checkpoint commit,
\* so an edit of it that was not staged before the batch is gone; an
\* untouched path git does not track is as it was before the batch.
C40_RollbackResetsUntouchedTracked ==
  pc = "RolledBack" =>
    \A p \in Untouched :
      wt[p] = IF pre.index[p] # Absent \/ Tree(ckpt.commit)[p] # Absent
              THEN Tree(ckpt.commit)[p] ELSE pre.wt[p]

C40_Witness ==
  /\ pc = "RolledBack"
  /\ invoked # <<>>
  /\ "p1" \in Untouched
  /\ pre.wt["p1"] = "dirty"
  /\ wt["p1"] # "dirty"
====
